---------------------------- MODULE Spec2Model ----------------------------
(***************************************************************************)
(* A model of the AFib Care daily-record application (src/src/App.jsx)     *)
(* and of its offline cache worker (src/public/sw.js).                     *)
(*                                                                         *)
(* JavaScript strings are sequences of one-character strings, so that      *)
(* slicing, joining, comparing and parsing are computed character by       *)
(* character.  A JavaScript value whose type varies (a vitals field holds  *)
(* the text typed into the form, or a number after fillDemo) is a tagged   *)
(* record: Str(<<"7","2">>), Num(72).  A JSON document is a tagged tree.   *)
(***************************************************************************)
EXTENDS Integers, Sequences, FiniteSets, TLC

\* ------------------------------------------------------------------------
\* Bounds of the model
\* ------------------------------------------------------------------------

\* User actions (edits, date selections, resets, demo fills, exports, clock
\* advances) taken after startup.
MaxSteps == 2

\* Seeds of the Math.random() stream offered to fillDemo: 1..MaxSeed.
MaxSeed == 2

\* Fetch events dispatched to the cache worker.
MaxFetches == 2

\* ------------------------------------------------------------------------
\* Strings
\* ------------------------------------------------------------------------

Digits == <<"0", "1", "2", "3", "4", "5", "6", "7", "8", "9">>

DigitValues == [c \in {Digits[i] : i \in 1..10} |-> CHOOSE i \in 0..9 : Digits[i + 1] = c]

IsDigit(c) == c \in DOMAIN DigitValues

DigitVal(c) == DigitValues[c]

\* String(n) for an integer n.
RECURSIVE NatToString(_)
NatToString(n) ==
    IF n < 10 THEN <<Digits[n + 1]>>
    ELSE Append(NatToString(n \div 10), Digits[(n % 10) + 1])

NumberToString(n) == IF n < 0 THEN <<"-">> \o NatToString(0 - n) ELSE NatToString(n)

\* n written with at least w digits (the zero padding of toISOString).
RECURSIVE PadStart(_, _)
PadStart(s, w) == IF Len(s) >= w THEN s ELSE PadStart(<<"0">> \o s, w)

RECURSIVE DigitsValue(_)
DigitsValue(s) ==
    IF Len(s) = 0 THEN 0
    ELSE DigitsValue(SubSeq(s, 1, Len(s) - 1)) * 10 + DigitVal(s[Len(s)])

AllDigits(s) == \A i \in 1..Len(s) : IsDigit(s[i])

\* s.slice(from): the characters from 0-based index `from` on.
SliceFrom(s, from) == IF from >= Len(s) THEN <<>> ELSE SubSeq(s, from + 1, Len(s))

\* Collation rank of a character: the hyphen, then the digits, then the rest.
CharRank(c) == IF c = "-" THEN 0 ELSE IF IsDigit(c) THEN DigitVal(c) + 1 ELSE 11

\* a.localeCompare(b), as negative, zero or positive: decided by the first
\* position where the two differ, a proper prefix comparing below.
localeCompare(a, b) ==
    LET common == IF Len(a) < Len(b) THEN Len(a) ELSE Len(b)
        differ == {i \in 1..common : a[i] # b[i]}
    IN  IF differ = {}
        THEN (IF Len(a) < Len(b) THEN -1 ELSE IF Len(a) > Len(b) THEN 1 ELSE 0)
        ELSE LET i == CHOOSE k \in differ : \A m \in differ : k <= m
             IN  IF CharRank(a[i]) < CharRank(b[i]) THEN -1
                 ELSE IF CharRank(a[i]) > CharRank(b[i]) THEN 1
                 ELSE 0

\* parts.join(sep)
RECURSIVE Join(_, _)
Join(parts, sep) ==
    IF Len(parts) = 0 THEN <<>>
    ELSE IF Len(parts) = 1 THEN parts[1]
    ELSE parts[1] \o sep \o Join(Tail(parts), sep)

\* s.replace(/\n/g, " ")
ReplaceNewlines(s) == [i \in 1..Len(s) |-> IF s[i] = "\n" THEN " " ELSE s[i]]

CountChar(s, c) == Cardinality({i \in 1..Len(s) : s[i] = c})

\* ------------------------------------------------------------------------
\* JavaScript values and JSON documents
\* ------------------------------------------------------------------------

\* Every number is a double.  A finite one is held as the shortest decimal
\* that reads back as it, the digits Number::toString prints:
\* 0.d[1]...d[n] * 10^p, negated when neg, d its decimal digits without
\* zeros at either end, and 0 the number without digits (-0, which the
\* program cannot tell from 0, is held as 0).  Infinity and -Infinity are
\* apart.
Str(s) == [t |-> "str", chars |-> s]
\* The least and the greatest of a non-empty set of integers.
Least(S) == CHOOSE i \in S : \A j \in S : i <= j
Greatest(S) == 0 - Least({0 - i : i \in S})
Finite(negative, ds, point) ==
    LET solid == {i \in 1..Len(ds) : ds[i] # 0}
    IN  IF solid = {} THEN [t |-> "num", neg |-> FALSE, d |-> <<>>, p |-> 0]
        ELSE LET first == Least(solid)
                 last == Greatest(solid)
             IN  [t |-> "num", neg |-> negative,
                  d |-> SubSeq(<<>> \o ds, first, last), p |-> point - (first - 1)]
\* The integer whose digits are ds, and the integer n.
FromDigits(negative, ds) == Finite(negative, ds, Len(ds))
Num(n) ==
    LET text == NatToString(IF n < 0 THEN 0 - n ELSE n)
    IN  FromDigits(n < 0, [i \in 1..Len(text) |-> DigitVal(text[i])])
Bool(b) == [t |-> "bool", b |-> b]
NaN == [t |-> "nan"]
Infinity(negative) == [t |-> "inf", neg |-> negative]
Null == [t |-> "null"]
Undefined == [t |-> "undefined"]
Arr(elems) == [t |-> "arr", elems |-> elems]
Obj(members) == [t |-> "obj", v |-> members]

\* The least i in lo..hi at which s and t differ, hi + 1 when there is none.
RECURSIVE FirstDiff(_, _, _, _)
FirstDiff(s, t, lo, hi) ==
    IF lo > hi THEN lo
    ELSE IF lo = hi THEN (IF s[lo] # t[lo] THEN lo ELSE lo + 1)
    ELSE LET mid == (lo + hi) \div 2
         IN  IF SubSeq(s, lo, mid) # SubSeq(t, lo, mid)
             THEN FirstDiff(s, t, lo, mid)
             ELSE FirstDiff(s, t, mid + 1, hi)

\* |x| against |y| for finite x and y: -1, 0 or 1.
CmpMag(x, y) ==
    IF Len(x.d) = 0 \/ Len(y.d) = 0
    THEN (IF Len(x.d) > 0 THEN 1 ELSE IF Len(y.d) > 0 THEN -1 ELSE 0)
    ELSE IF x.p # y.p THEN (IF x.p < y.p THEN -1 ELSE 1)
    ELSE LET common == IF Len(x.d) < Len(y.d) THEN Len(x.d) ELSE Len(y.d)
             i == FirstDiff(x.d, y.d, 1, common)
         IN  IF i <= common THEN (IF x.d[i] < y.d[i] THEN -1 ELSE 1)
             ELSE IF Len(x.d) = Len(y.d) THEN 0
             ELSE IF Len(x.d) < Len(y.d) THEN -1
             ELSE 1

\* x < y for numbers x and y (not NaN).
Less(x, y) ==
    IF x.t = "inf" THEN x.neg /\ ~(y.t = "inf" /\ y.neg)
    ELSE IF y.t = "inf" THEN ~y.neg
    ELSE IF x.neg # y.neg THEN x.neg
    ELSE IF x.neg THEN CmpMag(y, x) < 0
    ELSE CmpMag(x, y) < 0

\* x < k and x > k for a number x (not NaN) and an integer k.
Below(x, k) == Less(x, Num(k))
Above(x, k) == Less(Num(k), x)

\* 2x and x / 2 for a finite x, exactly: each digit of the result depends
\* on one digit of x and its right neighbour.
Twice(x) ==
    LET n == Len(x.d)
        carry(i) == IF i <= n /\ x.d[i] >= 5 THEN 1 ELSE 0
        body == <<>> \o [i \in 1..n |-> (2 * x.d[i] + carry(i + 1)) % 10]
        kept == IF body[n] = 0 THEN SubSeq(body, 1, n - 1) ELSE body
    IN  IF n = 0 THEN x
        ELSE IF carry(1) = 1 THEN [x EXCEPT !.d = <<1>> \o kept, !.p = x.p + 1]
        ELSE [x EXCEPT !.d = kept]
Half(x) ==
    LET n == Len(x.d)
        lead == x.d[1] \div 2
        body == <<>> \o [i \in 1..n |->
                    5 * (x.d[i] % 2) + (IF i < n THEN x.d[i + 1] \div 2 ELSE 0)]
        kept == IF body[n] = 0 THEN SubSeq(body, 1, n - 1) ELSE body
    IN  IF n = 0 THEN x
        ELSE IF lead = 0 THEN [x EXCEPT !.d = kept, !.p = x.p - 1]
        ELSE [x EXCEPT !.d = <<lead>> \o kept]

\* x * 2^k, exactly, for any integer k.
RECURSIVE Scale(_, _)
Scale(x, k) ==
    IF k = 0 THEN x
    ELSE IF k = 1 THEN Twice(x)
    ELSE IF k = -1 THEN Half(x)
    ELSE LET h == k \div 2
             part == Scale(x, h)
         IN  IF Len(part.d) = 0 THEN part ELSE Scale(part, k - h)

\* The digits of the integer x, and of the integers next above and next
\* below the integer of digits ds.
IntDigits(x) == x.d \o [i \in 1..(x.p - Len(x.d)) |-> 0]
Inc(ds) ==
    LET low == {i \in 1..Len(ds) : ds[i] # 9}
    IN  IF low = {} THEN <<1>> \o [i \in 1..Len(ds) |-> 0]
        ELSE LET j == CHOOSE i \in low : \A m \in low : i >= m
             IN  [i \in 1..Len(ds) |-> IF i < j THEN ds[i] ELSE IF i = j THEN ds[i] + 1 ELSE 0]
Dec(ds) ==
    LET high == {i \in 1..Len(ds) : ds[i] # 0}
        j == CHOOSE i \in high : \A m \in high : i >= m
    IN  [i \in 1..Len(ds) |-> IF i < j THEN ds[i] ELSE IF i = j THEN ds[i] - 1 ELSE 9]
RECURSIVE IncBy(_, _)
IncBy(ds, c) ==
    IF c = 0 THEN ds
    ELSE LET next == <<>> \o Inc(ds)
         IN  IF Len(next) = 0 THEN next ELSE IncBy(next, c - 1)

\* The doubles' binary format: 53 bits of mantissa, exponents of two from
\* -1074 (the subnormals) to 971.
TwoTo52 == Scale(Num(1), 52)
TwoTo53 == Twice(TwoTo52)
MinExponent == 0 - 1074
MaxExponent == 1024 - 53

\* y = x / 2^q for the q, at least MinExponent, that brings x below 2^53;
\* y is at least 2^52 unless q is MinExponent.
RECURSIVE BelowTwoTo53(_, _)
BelowTwoTo53(y, q) ==
    IF CmpMag(y, TwoTo53) < 0 THEN [y |-> y, q |-> q] ELSE BelowTwoTo53(Half(y), q + 1)
Mantissa(x) ==
    LET guess == ((x.p - 1) * 3322) \div 1000 - 53
        q == IF guess < MinExponent THEN MinExponent ELSE guess
    IN  BelowTwoTo53(Scale(x, 0 - q), q)

\* The digits of the integer nearest to y, the even one of two equally near.
RoundHalfEven(y) ==
    LET n == Len(y.d)
        whole == IF y.p <= 0 THEN <<>>
                 ELSE IF y.p >= n THEN IntDigits(y)
                 ELSE SubSeq(y.d, 1, y.p)
        rest == IF y.p < 0 \/ y.p >= n THEN <<>> ELSE SubSeq(y.d, y.p + 1, n)
        above == Len(rest) > 0 /\ (rest[1] > 5 \/ (rest[1] = 5 /\ Len(rest) > 1))
        tie == rest = <<5>>
        odd == Len(whole) > 0 /\ whole[Len(whole)] % 2 = 1
    IN  IF above \/ (tie /\ odd) THEN Inc(whole) ELSE whole

\* The shortest decimal, of k digits or more, that lies between lo and hi
\* (the ends included when closed), and of these the nearest to x, the
\* even one of two equally near.
RECURSIVE Shortest(_, _, _, _, _)
Shortest(x, lo, hi, closed, k) ==
    LET n == Len(x.d)
        cut == <<>> \o [i \in 1..k |-> IF i <= n THEN x.d[i] ELSE 0]
        up == <<>> \o Inc(cut)
        a == Finite(x.neg, cut, x.p)
        b == Finite(x.neg, up, x.p + (Len(up) - k))
        inA == k >= n \/ CmpMag(lo, a) < 0 \/ (closed /\ CmpMag(lo, a) = 0)
        inB == CmpMag(b, hi) < 0 \/ (closed /\ CmpMag(b, hi) = 0)
        rest == SubSeq(x.d, k + 1, n)
        more == k < n /\ (rest[1] > 5 \/ (rest[1] = 5 /\ Len(rest) > 1))
        tie == k < n /\ rest = <<5>>
        nearerA == (~more /\ ~tie) \/ (tie /\ cut[k] % 2 = 0)
    IN  IF inA /\ (~inB \/ nearerA) THEN a
        ELSE IF inB THEN b
        ELSE Shortest(x, lo, hi, closed, k + 1)

\* The double nearest to the finite x (the one of even mantissa of two
\* equally near), as the shortest decimal that reads back as it; Infinity
\* beyond the largest double.  m * 2^q is the double; the reals that round
\* to it lie between the midpoints to its neighbours, which are nearer
\* below a power of two.
NearestDouble(x) ==
    LET scaled == Mantissa(x)
        rounded == FromDigits(FALSE, RoundHalfEven(scaled.y))
        carried == CmpMag(rounded, TwoTo53) = 0
        m == IF carried THEN TwoTo52 ELSE rounded
        q == IF carried THEN scaled.q + 1 ELSE scaled.q
        digits == IntDigits(m)
        closed == digits[Len(digits)] % 2 = 0
        narrow == CmpMag(m, TwoTo52) = 0 /\ q > MinExponent
        value == Scale([m EXCEPT !.neg = x.neg], q)
        hi == Scale(FromDigits(FALSE, Inc(IntDigits(Twice(m)))), q - 1)
        lo == IF narrow
              THEN Scale(FromDigits(FALSE, Dec(IntDigits(Twice(Twice(m))))), q - 2)
              ELSE Scale(FromDigits(FALSE, Dec(IntDigits(Twice(m)))), q - 1)
    IN  IF Len(m.d) = 0 THEN Num(0)
        ELSE IF q > MaxExponent THEN Infinity(x.neg)
        ELSE Shortest(value, lo, hi, closed, 1)

\* The number a numeric text of exact value x is read as.  A text of at
\* most 15 digits between 1e-307 and 1e308 is the shortest decimal of its
\* own double; 1.8e308 and above are beyond the midpoint between the
\* largest double and 2^1024, so Infinity; below 2e-324 is below half the
\* least double, so 0.
RoundToDouble(x) ==
    IF Len(x.d) = 0 THEN x
    ELSE IF x.p > 309
            \/ (x.p = 309 /\ (x.d[1] >= 2 \/ (Len(x.d) >= 2 /\ x.d[2] >= 8)))
    THEN Infinity(x.neg)
    ELSE IF x.p < -323 \/ (x.p = -323 /\ x.d[1] = 1) THEN Num(0)
    ELSE IF Len(x.d) <= 15 /\ x.p >= -306 /\ x.p <= 308 THEN x
    ELSE NearestDouble(x)

\* StrWhiteSpaceChar, which StringToNumber strips from both ends of a text:
\* the white space and line terminator characters.  A character TLA+
\* strings cannot hold is written as its code point.
WhiteSpace ==
    {" ", "\n", "\t", "\f", "\r", "U+000B", "U+00A0", "U+FEFF", "U+2028", "U+2029",
     "U+1680", "U+2000", "U+2001", "U+2002", "U+2003", "U+2004", "U+2005", "U+2006",
     "U+2007", "U+2008", "U+2009", "U+200A", "U+202F", "U+205F", "U+3000"}

\* The text without the white space at its ends.
Trim(s) ==
    LET solid == {i \in 1..Len(s) : s[i] \notin WhiteSpace}
    IN  IF solid = {} THEN <<>>
        ELSE SubSeq(s, Least(solid), Greatest(solid))

\* The digits of the radix prefixes 0x, 0o and 0b, with their values.
RadixDigits ==
    <<"0", "1", "2", "3", "4", "5", "6", "7", "8", "9", "a", "b", "c", "d", "e", "f">>
RadixDigitValue(c) ==
    IF c \in {"A", "B", "C", "D", "E", "F"}
    THEN CHOOSE i \in 10..15 : RadixDigits[i + 1] = <<"a", "b", "c", "d", "e", "f">>[
             CHOOSE j \in 1..6 : <<"A", "B", "C", "D", "E", "F">>[j] = c]
    ELSE IF \E i \in 0..15 : RadixDigits[i + 1] = c
    THEN CHOOSE i \in 0..15 : RadixDigits[i + 1] = c
    ELSE 16

\* The value of the digits of a 0x, 0o or 0b literal, exactly.
RECURSIVE RadixValue(_, _)
RadixValue(s, radix) ==
    IF Len(s) = 0 THEN Num(0)
    ELSE LET front == RadixValue(SubSeq(s, 1, Len(s) - 1), radix)
             last == Num(RadixDigitValue(s[Len(s)]))
             shifted == Scale(front, IF radix = 16 THEN 4 ELSE IF radix = 8 THEN 3 ELSE 1)
         IN  IF Len(front.d) = 0 THEN last
             ELSE FromDigits(FALSE, IncBy(<<>> \o IntDigits(shifted), RadixDigitValue(s[Len(s)])))

\* The radix of a text that starts with 0x, 0o or 0b (either case), else 0.
RadixOf(s) ==
    IF Len(s) < 2 \/ s[1] # "0" THEN 0
    ELSE IF s[2] \in {"x", "X"} THEN 16
    ELSE IF s[2] \in {"o", "O"} THEN 8
    ELSE IF s[2] \in {"b", "B"} THEN 2
    ELSE 0

\* The digits of s without the zeros at its start.
StripLeadingZeros(s) ==
    LET solid == {i \in 1..Len(s) : s[i] # "0"}
    IN  IF solid = {} THEN <<>>
        ELSE SubSeq(s, Least(solid), Len(s))

\* The value of an unsigned StrDecimalLiteral: digits with an optional
\* fraction and an optional exponent part, rounded to the nearest double.
UnsignedDecimal(body, negative) ==
    LET marks == {i \in 1..Len(body) : body[i] \in {"e", "E"}}
        cut == IF marks = {} THEN Len(body) + 1 ELSE CHOOSE i \in marks : TRUE
        mant == SubSeq(body, 1, cut - 1)
        expo == SubSeq(body, cut + 1, Len(body))
        expoNeg == Len(expo) > 0 /\ expo[1] = "-"
        expoDigits == IF Len(expo) > 0 /\ expo[1] \in {"-", "+"} THEN Tail(expo) ELSE expo
        dots == {i \in 1..Len(mant) : mant[i] = "."}
        dot == IF dots = {} THEN Len(mant) + 1 ELSE CHOOSE i \in dots : TRUE
        whole == SubSeq(mant, 1, dot - 1)
        frac == SubSeq(mant, dot + 1, Len(mant))
        wellFormed ==
            /\ Cardinality(marks) <= 1
            /\ Cardinality(dots) <= 1
            /\ AllDigits(whole)
            /\ AllDigits(frac)
            /\ Len(mant) - Cardinality(dots) >= 1
            /\ marks # {} => (Len(expoDigits) >= 1 /\ AllDigits(expoDigits))
        digits == whole \o frac
        \* The digits before the exponent part are 0.d * 10^base.p, and the
        \* exponent is an integer of any length.
        base == Finite(negative, [i \in 1..Len(digits) |-> DigitVal(digits[i])], Len(whole))
        expoSize == StripLeadingZeros(expoDigits)
        expoValue == FromDigits(expoNeg, [i \in 1..Len(expoSize) |-> DigitVal(expoSize[i])])
        e == IF expoNeg THEN 0 - DigitsValue(expoSize) ELSE DigitsValue(expoSize)
    IN  IF ~wellFormed THEN NaN
        ELSE IF Len(base.d) = 0 THEN base
        \* base.p + exponent above 309: past the greatest double.
        ELSE IF Less(Num(309 - base.p), expoValue) THEN Infinity(negative)
        \* base.p + exponent below -323: under half the least double.
        ELSE IF Less(expoValue, Num((0 - 323) - base.p)) THEN Num(0)
        ELSE RoundToDouble(Finite(negative, base.d, base.p + e))

\* StringToNumber(s): the white space at the ends aside, the empty text is
\* 0, a text with a radix prefix is its integer, a decimal literal with an
\* optional sign is its value, Infinity with an optional sign is itself,
\* and every other text is NaN.
StringToNumber(text) ==
    LET s == Trim(text)
        signed == Len(s) > 0 /\ s[1] \in {"-", "+"}
        negative == Len(s) > 0 /\ s[1] = "-"
        body == IF signed THEN Tail(s) ELSE s
        radix == RadixOf(s)
        radixDigits == SubSeq(s, 3, Len(s))
    IN  IF Len(s) = 0 THEN Num(0)
        ELSE IF radix # 0
        THEN IF Len(radixDigits) >= 1
                  /\ \A i \in 1..Len(radixDigits) : RadixDigitValue(radixDigits[i]) < radix
             THEN RoundToDouble(RadixValue(radixDigits, radix))
             ELSE NaN
        ELSE IF body = <<"I", "n", "f", "i", "n", "i", "t", "y">> THEN Infinity(negative)
        ELSE UnsignedDecimal(body, negative)

\* Number::toString of a finite number: its digits, as an integer up to 21
\* digits long, with a decimal point down to 0.000001, else in exponent form.
DecimalText(x) ==
    LET k == Len(x.d)
        n == x.p
        digits == [i \in 1..k |-> Digits[x.d[i] + 1]]
        zeros(c) == [i \in 1..c |-> "0"]
        sign == IF x.neg THEN <<"-">> ELSE <<>>
        e == n - 1
    IN  IF k = 0 THEN <<"0">>
        ELSE IF k <= n /\ n <= 21 THEN sign \o digits \o zeros(n - k)
        ELSE IF 0 < n /\ n <= 21
        THEN sign \o SubSeq(digits, 1, n) \o <<".">> \o SubSeq(digits, n + 1, k)
        ELSE IF -6 < n /\ n <= 0 THEN sign \o <<"0", ".">> \o zeros(0 - n) \o digits
        ELSE sign \o <<digits[1]>> \o (IF k > 1 THEN <<".">> \o Tail(digits) ELSE <<>>)
                  \o <<"e", IF e < 0 THEN "-" ELSE "+">>
                  \o NatToString(IF e < 0 THEN 0 - e ELSE e)

\* String(x)
RECURSIVE StringOf(_)
StringOf(x) ==
    CASE x.t = "str" -> x.chars
      [] x.t = "num" -> DecimalText(x)
      [] x.t = "inf" -> (IF x.neg THEN <<"-">> ELSE <<>>)
                            \o <<"I", "n", "f", "i", "n", "i", "t", "y">>
      [] x.t = "nan" -> <<"N", "a", "N">>
      [] x.t = "bool" -> IF x.b THEN <<"t", "r", "u", "e">> ELSE <<"f", "a", "l", "s", "e">>
      [] x.t = "null" -> <<"n", "u", "l", "l">>
      [] x.t = "undefined" -> <<"u", "n", "d", "e", "f", "i", "n", "e", "d">>
      [] x.t = "arr" ->
            Join([i \in 1..Len(x.elems) |->
                    IF x.elems[i].t \in {"null", "undefined"} THEN <<>> ELSE StringOf(x.elems[i])],
                 <<",">>)
      [] OTHER -> <<"[", "o", "b", "j", "e", "c", "t", " ", "O", "b", "j", "e", "c", "t", "]">>

\* Number(x): a number is itself, a text is read by StringToNumber, true
\* is 1, false and null are 0, undefined is NaN, an array or object is
\* read from its text.
Number(x) ==
    CASE x.t \in {"num", "inf", "nan"} -> x
      [] x.t = "str" -> StringToNumber(x.chars)
      [] x.t = "bool" -> Num(IF x.b THEN 1 ELSE 0)
      [] x.t = "null" -> Num(0)
      [] x.t = "undefined" -> NaN
      [] OTHER -> StringToNumber(StringOf(x))

\* ToBoolean(x)
Truthy(x) ==
    CASE x.t = "num" -> Len(x.d) > 0
      [] x.t = "str" -> Len(x.chars) > 0
      [] x.t = "bool" -> x.b
      [] x.t \in {"arr", "obj", "inf"} -> TRUE
      [] OTHER -> FALSE

\* typeof x
TypeOf(x) ==
    CASE x.t \in {"num", "nan", "inf"} -> "number"
      [] x.t = "str" -> "string"
      [] x.t = "bool" -> "boolean"
      [] x.t = "undefined" -> "undefined"
      [] OTHER -> "object"

\* The text of an element of Array.prototype.join: null and undefined
\* give the empty text, every other value its String().
ToText(x) == IF x.t \in {"null", "undefined"} THEN <<>> ELSE StringOf(x)


\* ------------------------------------------------------------------------
\* Dates.  A Date object is its time value, here counted in minutes since
\* the epoch (UTC); tz is getTimezoneOffset(): UTC minus local, in minutes.
\* ------------------------------------------------------------------------

MinutesPerDay == 24 * 60

\* Year, month, day of the day number z (days since 1970-01-01).
CivilFromDays(z0) ==
    LET z == z0 + 719468
        era == z \div 146097
        doe == z - era * 146097
        yoe == (doe - doe \div 1460 + doe \div 36524 - doe \div 146096) \div 365
        doy == doe - (365 * yoe + yoe \div 4 - yoe \div 100)
        mp == (5 * doy + 2) \div 153
        d == doy - (153 * mp + 2) \div 5 + 1
        m == IF mp < 10 THEN mp + 3 ELSE mp - 9
        y == yoe + era * 400 + (IF m <= 2 THEN 1 ELSE 0)
    IN  [y |-> y, m |-> m, d |-> d]

\* Day number of year y, month m (1..12), day d.
DaysFromCivil(y0, m, d) ==
    LET y == IF m <= 2 THEN y0 - 1 ELSE y0
        era == y \div 400
        yoe == y - era * 400
        mp == IF m > 2 THEN m - 3 ELSE m + 9
        doy == (153 * mp + 2) \div 5 + d - 1
        doe == yoe * 365 + yoe \div 4 - yoe \div 100 + doy
    IN  era * 146097 + doe - 719468

\* new Date(t).toISOString().slice(0, 10): the UTC calendar date of t.
ISODate(t) ==
    LET c == CivilFromDays(t \div MinutesPerDay)
    IN  PadStart(NatToString(c.y), 4) \o <<"-">> \o PadStart(NatToString(c.m), 2)
            \o <<"-">> \o PadStart(NatToString(c.d), 2)

\* A time zone: its offsets (UTC minus local, in minutes) in standard and
\* in daylight-saving time, and the instants between which daylight-saving
\* time is in force in the year modelled (none when the two are equal).
TimeZone(std, dst, dstStart, dstEnd) ==
    [std |-> std, dst |-> dst, dstStart |-> dstStart, dstEnd |-> dstEnd]

\* d.getTimezoneOffset(): the zone's offset at the instant d.
GetTimezoneOffset(zone, d) ==
    IF zone.dstStart <= d /\ d < zone.dstEnd THEN zone.dst ELSE zone.std

\* The instant of a local time: the earlier of the two when the local time
\* occurs twice, and the one read with the offset before the change when
\* the local time is skipped.
UTCOfLocal(zone, local) ==
    LET inDst == local + zone.dst
        inStd == local + zone.std
        dstFits == GetTimezoneOffset(zone, inDst) = zone.dst
        stdFits == GetTimezoneOffset(zone, inStd) = zone.std
    IN  IF dstFits /\ stdFits THEN (IF inDst < inStd THEN inDst ELSE inStd)
        ELSE IF dstFits THEN inDst
        ELSE inStd

\* fmtDate(d): the local calendar date of d, as YYYY-MM-DD.
fmtDate(d, zone) ==
    LET tzOffset == GetTimezoneOffset(zone, d)
        local == d - tzOffset
    IN  ISODate(local)

\* d.setDate(d.getDate() - i): the local day of the month moved back by i,
\* the local time of day kept (MakeDay normalises a day below 1 into the
\* preceding months), read in the zone's offset at the new local time.
SetDateBack(d, zone, i) ==
    LET local == d - GetTimezoneOffset(zone, d)
        c == CivilFromDays(local \div MinutesPerDay)
        tod == local % MinutesPerDay
        day == DaysFromCivil(c.y, c.m, 1) + (c.d - i) - 1
    IN  UTCOfLocal(zone, day * MinutesPerDay + tod)

\* ------------------------------------------------------------------------
\* Daily entries and the store
\* ------------------------------------------------------------------------

defaultEntry(today) ==
    [date |-> today,
     pulse |-> Str(<<>>),
     bpSys |-> Str(<<>>),
     bpDia |-> Str(<<>>),
     dizziness |-> FALSE,
     syncope |-> FALSE,
     dyspnea |-> FALSE,
     edema |-> FALSE,
     bleeding |-> FALSE,
     fatigue |-> <<"0">>,
     meds |-> [am |-> [multaq |-> FALSE, edoxaban |-> FALSE, bisoprolol |-> FALSE],
               pm |-> [multaq |-> FALSE]],
     notes |-> <<>>]

\* { ...a, ...b } for objects given as functions of their property names.
Spread(a, b) ==
    [f \in (DOMAIN a) \cup (DOMAIN b) |-> IF f \in DOMAIN b THEN b[f] ELSE a[f]]

EmptyObject == Obj(<<>>)

\* The own enumerable properties of an object or array, in property order
\* (an array's are its indices).
OwnMembers(o) ==
    IF o.t = "arr" THEN [i \in 1..Len(o.elems) |-> [k |-> NatToString(i - 1), v |-> o.elems[i]]]
    ELSE o.v

HasKey(o, key) == \E i \in 1..Len(OwnMembers(o)) : OwnMembers(o)[i].k = key

\* o[key], for a key o has.
Lookup(o, key) ==
    LET ms == OwnMembers(o)
    IN  ms[CHOOSE i \in 1..Len(ms) : ms[i].k = key].v

Keys(o) == {OwnMembers(o)[i].k : i \in 1..Len(OwnMembers(o))}

\* Object.values(o)
Values(o) == [i \in 1..Len(OwnMembers(o)) |-> OwnMembers(o)[i].v]

\* { ...o, [key]: value }: an existing key keeps its place, a new one is
\* added last.
SpreadWith(o, key, value) ==
    LET ms == OwnMembers(o)
    IN  IF \E i \in 1..Len(ms) : ms[i].k = key
        THEN Obj([i \in 1..Len(ms) |-> IF ms[i].k = key THEN [k |-> key, v |-> value] ELSE ms[i]])
        ELSE Obj(Append(ms, [k |-> key, v |-> value]))

\* n = { ...o }; delete n[key]
SpreadWithout(o, key) ==
    LET keep(m) == m.k # key
    IN  Obj(SelectSeq(OwnMembers(o), keep))

\* ------------------------------------------------------------------------
\* Persistence: localStorage holds one text under STORAGE_KEY
\* ------------------------------------------------------------------------

\* getItem's results: null when the key is absent, else the stored text.  A
\* text is empty, is not JSON, or is the JSON text of a document.
NoItem == [kind |-> "null"]
EmptyText == [kind |-> "text", syntax |-> "empty"]
GarbageText == [kind |-> "text", syntax |-> "invalid"]
JSONText(doc) == [kind |-> "text", syntax |-> "json", doc |-> doc]

\* JSON.stringify of an entry: its properties in order.
EntryToJSON(e) ==
    Obj(<<[k |-> "date", v |-> Str(e.date)],
          [k |-> "pulse", v |-> e.pulse],
          [k |-> "bpSys", v |-> e.bpSys],
          [k |-> "bpDia", v |-> e.bpDia],
          [k |-> "dizziness", v |-> Bool(e.dizziness)],
          [k |-> "syncope", v |-> Bool(e.syncope)],
          [k |-> "dyspnea", v |-> Bool(e.dyspnea)],
          [k |-> "edema", v |-> Bool(e.edema)],
          [k |-> "bleeding", v |-> Bool(e.bleeding)],
          [k |-> "fatigue", v |-> Str(e.fatigue)],
          [k |-> "meds", v |->
              Obj(<<[k |-> "am", v |->
                        Obj(<<[k |-> "multaq", v |-> Bool(e.meds.am.multaq)],
                              [k |-> "edoxaban", v |-> Bool(e.meds.am.edoxaban)],
                              [k |-> "bisoprolol", v |-> Bool(e.meds.am.bisoprolol)]>>)],
                    [k |-> "pm", v |->
                        Obj(<<[k |-> "multaq", v |-> Bool(e.meds.pm.multaq)]>>)]>>)],
          [k |-> "notes", v |-> Str(e.notes)]>>)

\* The entry JSON.parse builds from an entry's document.
EntryFromJSON(j) ==
    LET am == Lookup(Lookup(j, "meds"), "am")
        pm == Lookup(Lookup(j, "meds"), "pm")
    IN  [date |-> Lookup(j, "date").chars,
         pulse |-> Lookup(j, "pulse"),
         bpSys |-> Lookup(j, "bpSys"),
         bpDia |-> Lookup(j, "bpDia"),
         dizziness |-> Lookup(j, "dizziness").b,
         syncope |-> Lookup(j, "syncope").b,
         dyspnea |-> Lookup(j, "dyspnea").b,
         edema |-> Lookup(j, "edema").b,
         bleeding |-> Lookup(j, "bleeding").b,
         fatigue |-> Lookup(j, "fatigue").chars,
         meds |-> [am |-> [multaq |-> Lookup(am, "multaq").b,
                           edoxaban |-> Lookup(am, "edoxaban").b,
                           bisoprolol |-> Lookup(am, "bisoprolol").b],
                   pm |-> [multaq |-> Lookup(pm, "multaq").b]],
         notes |-> Lookup(j, "notes").chars]

\* JSON.stringify(entries)
JSONstringify(store) ==
    IF store.t = "arr"
    THEN JSONText(Arr([i \in 1..Len(store.elems) |-> EntryToJSON(store.elems[i])]))
    ELSE JSONText(Obj([i \in 1..Len(store.v) |->
                        [k |-> store.v[i].k, v |-> EntryToJSON(store.v[i].v)]]))

\* JSON.parse(raw): the document, or a SyntaxError.
JSONparse(raw) ==
    IF raw.syntax = "json" THEN [threw |-> FALSE, value |-> raw.doc]
    ELSE [threw |-> TRUE]

\* The object JSON.parse returns for an object or array document of entries.
Revive(doc) ==
    IF doc.t = "arr"
    THEN Arr([i \in 1..Len(doc.elems) |-> EntryFromJSON(doc.elems[i])])
    ELSE Obj([i \in 1..Len(doc.v) |-> [k |-> doc.v[i].k, v |-> EntryFromJSON(doc.v[i].v)]])

loadEntries(item) ==
    IF item.kind = "null" \/ item.syntax = "empty" THEN EmptyObject
    ELSE LET parsed == JSONparse(item)
         IN  IF parsed.threw THEN EmptyObject
             ELSE IF Truthy(parsed.value) /\ TypeOf(parsed.value) = "object"
                  THEN Revive(parsed.value)
                  ELSE EmptyObject

saveEntries(store) == JSONstringify(store)


\* ------------------------------------------------------------------------
\* Derived views
\* ------------------------------------------------------------------------

\* The five messages dangerFlags pushes.  The source's texts are Korean;
\* each is given here in English, one distinct text per message.
FlagPulse == "pulse out of range (below 50 or above 110)"
FlagLowBP == "low blood pressure suspected (below 90/60)"
FlagBleeding == "bleeding reported"
FlagSyncope == "syncope reported"
FlagDyspnea == "dyspnea reported"

\* p && (p < 50 || p > 110), for p = Number(entry.pulse)
PulseOutOfRange(p) == Truthy(p) /\ (Below(p, 50) \/ Above(p, 110))

LowBPMutant(sys, dia) == Truthy(sys) /\ Truthy(dia) /\ (Below(sys, 90) /\ Below(dia, 60))

\* sys && dia && (sys < 90 || dia < 60)
LowBP(sys, dia) == Truthy(sys) /\ Truthy(dia) /\ (Below(sys, 90) \/ Below(dia, 60))

dangerFlagsMutant(e) ==
    LET p == Number(e.pulse)
        sys == Number(e.bpSys)
        dia == Number(e.bpDia)
    IN  (IF e.bleeding THEN <<FlagBleeding>> ELSE <<>>)
        \o (IF PulseOutOfRange(p) THEN <<FlagPulse>> ELSE <<>>)
        \o (IF LowBP(sys, dia) THEN <<FlagLowBP>> ELSE <<>>)
        \o (IF e.syncope THEN <<FlagSyncope>> ELSE <<>>)
        \o (IF e.dyspnea THEN <<FlagDyspnea>> ELSE <<>>)

\* The flags pushed, in the order of the five tests.
dangerFlags(e) ==
    LET p == Number(e.pulse)
        sys == Number(e.bpSys)
        dia == Number(e.bpDia)
    IN  (IF PulseOutOfRange(p) THEN <<FlagPulse>> ELSE <<>>)
        \o (IF LowBP(sys, dia) THEN <<FlagLowBP>> ELSE <<>>)
        \o (IF e.bleeding THEN <<FlagBleeding>> ELSE <<>>)
        \o (IF e.syncope THEN <<FlagSyncope>> ELSE <<>>)
        \o (IF e.dyspnea THEN <<FlagDyspnea>> ELSE <<>>)

\* One step of a stable sort: e placed after every element of the sorted
\* sequence that does not compare greater than it.
RECURSIVE InsertByDate(_, _)
InsertByDate(sorted, e) ==
    IF Len(sorted) = 0 THEN <<e>>
    ELSE IF localeCompare(sorted[Len(sorted)].date, e.date) <= 0 THEN Append(sorted, e)
    ELSE Append(InsertByDate(SubSeq(sorted, 1, Len(sorted) - 1), e), sorted[Len(sorted)])

RECURSIVE SortFrom(_, _, _)
SortFrom(arr, i, sorted) ==
    IF i > Len(arr) THEN sorted
    ELSE SortFrom(arr, i + 1, InsertByDate(sorted, arr[i]))

SortByDateMutant(arr) == arr

\* arr.sort((a, b) => a.date.localeCompare(b.date)); the sort is stable.
SortByDate(arr) == SortFrom(arr, 1, <<>>)

\* Number(x) || null
NumberOrNull(x) == IF Truthy(Number(x)) THEN Number(x) ELSE Null

daysData(store) ==
    LET arr == SortByDate(Values(store))
    IN  [i \in 1..Len(arr) |->
            [date |-> SliceFrom(arr[i].date, 5),
             pulse |-> NumberOrNull(arr[i].pulse),
             sys |-> NumberOrNull(arr[i].bpSys),
             dia |-> NumberOrNull(arr[i].bpDia)]]

\* The header row's fifteen cells.
CSVHeader ==
    <<<<"d", "a", "t", "e">>,
      <<"p", "u", "l", "s", "e">>,
      <<"b", "p", "S", "y", "s">>,
      <<"b", "p", "D", "i", "a">>,
      <<"d", "i", "z", "z", "i", "n", "e", "s", "s">>,
      <<"s", "y", "n", "c", "o", "p", "e">>,
      <<"d", "y", "s", "p", "n", "e", "a">>,
      <<"e", "d", "e", "m", "a">>,
      <<"b", "l", "e", "e", "d", "i", "n", "g">>,
      <<"f", "a", "t", "i", "g", "u", "e">>,
      <<"m", "e", "d", "s", "_", "a", "m", "_", "m", "u", "l", "t", "a", "q">>,
      <<"m", "e", "d", "s", "_", "a", "m", "_", "e", "d", "o", "x", "a", "b", "a", "n">>,
      <<"m", "e", "d", "s", "_", "a", "m", "_", "b", "i", "s", "o", "p", "r", "o", "l", "o", "l">>,
      <<"m", "e", "d", "s", "_", "p", "m", "_", "m", "u", "l", "t", "a", "q">>,
      <<"n", "o", "t", "e", "s">>>>

NotesCellMutant(notes) == notes

\* (e.notes || "").replace(/\n/g, " ")
NotesCell(notes) == ReplaceNewlines(notes)

\* The fifteen cells of an entry's row, each as join renders it.
CSVRow(e) ==
    <<e.date, ToText(e.pulse), ToText(e.bpSys), ToText(e.bpDia),
      ToText(Bool(e.dizziness)), ToText(Bool(e.syncope)), ToText(Bool(e.dyspnea)),
      ToText(Bool(e.edema)), ToText(Bool(e.bleeding)), e.fatigue,
      ToText(Bool(e.meds.am.multaq)), ToText(Bool(e.meds.am.edoxaban)),
      ToText(Bool(e.meds.am.bisoprolol)), ToText(Bool(e.meds.pm.multaq)),
      NotesCell(e.notes)>>

\* The rows of the export: the header, then one row per entry sorted by date.
CSVRows(store) ==
    LET arr == SortByDate(Values(store))
    IN  <<CSVHeader>> \o [i \in 1..Len(arr) |-> CSVRow(arr[i])]

\* rows.map((r) => r.join(",")).join("\n")
CSVText(store) ==
    LET rows == CSVRows(store)
    IN  Join([i \in 1..Len(rows) |-> Join(rows[i], <<",">>)], <<"\n">>)

\* `afibcare_${fmtDate()}.csv`
CSVFileName(today) == <<"a", "f", "i", "b", "c", "a", "r", "e", "_">> \o today \o <<".", "c", "s", "v">>

\* ------------------------------------------------------------------------
\* Demo data
\* ------------------------------------------------------------------------

DemoDays == 28

\* Math.sin(i / 2) * 10, Math.cos(i / 3) * 8 and Math.sin(i / 3) * 6 for
\* i = 0..27, in millionths, rounded down.
SinHalfTimes10 ==
    <<0, 4794255, 8414709, 9974949, 9092974, 5984721, 1411200, -3507833, -7568025,
      -9775302, -9589243, -7055404, -2794155, 2151199, 6569865, 9379999, 9893582,
      7984871, 4121184, -751512, -5440212, -8796958, -9999903, -8754522, -5365730,
      -663219, 4201670, 8037844>>
CosThirdTimes8 ==
    <<8000000, 7559655, 6287098, 4322418, 1881900, -765789, -3329175, -5526066,
      -7114613, -7919940, -7853393, -6922295, -5229149, -2960347, -365652, 2269297,
      4654427, 6527170, 7681362, 7989942, 7418941, 6031218, 3979541, 1489772,
      -1164001, -3689633, -5809088, -7289043>>
SinThirdTimes6 ==
    <<0, 1963168, 3710218, 5048825, 5831627, 5972447, 5455784, 4338515, 2743635,
      846720, -1143408, -3007663, -4540815, -5574088, -5993730, -5753546, -4879977,
      -3469190, -1676493, 300762, 2244907, 3941919, 5204981, 5895046, 5936149,
      5323764, 4125307, 2472710>>

\* The n-th value (n = 0, 1, ...) Math.random() returns in a run seeded
\* with seed, in thousandths: a value of 0..999 stands for 0.000..0.999.
MathRandom(seed, n) == (seed * 389 + n * 617 + seed * n * 41) % 1000

\* Math.round(x) for x in millionths: the floor of x + 0.5.
MathRound(micro) == (micro + 500000) \div 1000000

\* The entry fillDemo generates for day offset i; its six Math.random()
\* calls are the six following the 6 * (days - 1 - i) of the earlier days.
DemoEntry(i, ds, today, seed) ==
    LET base == 6 * (DemoDays - 1 - i)
        r(j) == MathRandom(seed, base + j)
    IN  Spread(defaultEntry(today),
          [date |-> ds,
           pulse |-> Num(70 + MathRound(SinHalfTimes10[i + 1] + (r(0) * 6000 - 3000000))),
           bpSys |-> Num(120 + MathRound(CosThirdTimes8[i + 1] + (r(1) * 6000 - 3000000))),
           bpDia |-> Num(78 + MathRound(SinThirdTimes6[i + 1] + (r(2) * 4000 - 2000000))),
           dizziness |-> r(3) < 80,
           bleeding |-> r(4) < 30,
           fatigue |-> NumberToString(IF r(5) < 150 THEN 1 ELSE 0),
           meds |-> [am |-> [multaq |-> TRUE, edoxaban |-> TRUE, bisoprolol |-> TRUE],
                     pm |-> [multaq |-> TRUE]]])

\* The values of the loop's 28 new Date(): the clock is at `clock` for the
\* first `early` iterations and `elapsed` minutes later for the others.
ClockReads(clock, early, elapsed) ==
    [n \in 1..DemoDays |-> IF n <= early THEN clock ELSE clock + elapsed]

\* The assignments map[ds] = { ... } of the loop
\* for (let i = days - 1; i >= 0; i--), in the order it makes them, each
\* iteration reading the clock anew.
DemoAssignments(reads, zone, today, seed) ==
    [n \in 1..DemoDays |->
        LET i == DemoDays - n
            d == SetDateBack(reads[n], zone, i)
            ds == fmtDate(d, zone)
        IN  [k |-> ds, v |-> DemoEntry(i, ds, today, seed)]]

\* The object built from {} by the assignments o[k] = v in order: a key
\* stands where it was first assigned and holds what it was last assigned.
AssignAll(assignments) ==
    LET indexed == [n \in 1..Len(assignments) |-> [n |-> n, k |-> assignments[n].k]]
        IsFirst(p) == \A m \in 1..(p.n - 1) : assignments[m].k # p.k
        kept == SelectSeq(indexed, IsFirst)
        LastValue(key) ==
            assignments[CHOOSE m \in 1..Len(assignments) :
                            /\ assignments[m].k = key
                            /\ \A m2 \in (m + 1)..Len(assignments) :
                                    assignments[m2].k # key].v
    IN  Obj([j \in 1..Len(kept) |-> [k |-> kept[j].k, v |-> LastValue(kept[j].k)]])

DemoMap(reads, zone, today, seed) ==
    AssignAll(DemoAssignments(reads, zone, today, seed))

\* ------------------------------------------------------------------------
\* State
\* ------------------------------------------------------------------------

VARIABLES
    storage,      \* localStorage's item under STORAGE_KEY
    entries,      \* useState: the store in memory
    date,         \* useState: the selected date
    pc,           \* "boot" before the first render, "loaded" once useState has
                  \* run loadEntries, "ready" once the startup effect has run
    todayStr,     \* fmtDate() at module load
    now,          \* the clock: new Date()
    tz,           \* the host's time zone
    download,     \* the file the last exportCSV handed to the browser
    steps,        \* user actions taken so far
    fills,        \* fillDemo runs so far
    swState,      \* the cache worker: "parsed", "installing", "installed",
                  \* "activating", "activated", "redundant"
    cacheStorage, \* the origin's caches: a set of [name, urls]
    netUp,        \* whether fetch() reaches the network
    response,     \* what the fetch event answered last was answered with
    fetches,      \* fetch events dispatched so far
    deleted,      \* the names caches.delete has been called with
    job,          \* the outstanding step of the install or activate promise
    present,      \* the caches present when the activate event was dispatched
    requests      \* the requests of the fetch events, in order of dispatch

appVars == <<storage, entries, date, pc, todayStr, now, tz, download, steps, fills>>
swVars == <<swState, cacheStorage, netUp, response, fetches, deleted, job, present, requests>>
vars == <<storage, entries, date, pc, todayStr, now, tz, download, steps, fills,
          swState, cacheStorage, netUp, response, fetches, deleted, job, present, requests>>

\* ------------------------------------------------------------------------
\* Inputs
\* ------------------------------------------------------------------------

\* YYYY-MM-DD of a calendar date.
DateString(y, m, d) == ISODate(DaysFromCivil(y, m, d) * MinutesPerDay)

\* The hosts: Seoul, without daylight-saving time, at 2025-01-01 20:00 UTC,
\* which is 05:00 on 2025-01-02 there; New York, where daylight-saving time
\* runs from 2025-03-09 07:00 UTC to 2025-11-02 06:00 UTC, at 2025-03-20
\* 16:00 UTC, which is noon there, 11 days after the change.
Seoul == TimeZone(-540, -540, 0, 0)
NewYork ==
    TimeZone(300, 240, DaysFromCivil(2025, 3, 9) * MinutesPerDay + 7 * 60,
             DaysFromCivil(2025, 11, 2) * MinutesPerDay + 6 * 60)
Hosts ==
    {[clock |-> DaysFromCivil(2025, 1, 1) * MinutesPerDay + 20 * 60, zone |-> Seoul],
     [clock |-> DaysFromCivil(2025, 3, 20) * MinutesPerDay + 16 * 60, zone |-> NewYork]}

\* Time that may pass between two user actions: 18 hours 59 minutes, to
\* one minute before midnight in Seoul and past midnight in New York.
ClockAdvances == {18 * 60 + 59}

\* How the clock may move while fillDemo's loop runs: not at all, or by a
\* minute after the first ten iterations.
LoopTimings == {[early |-> DemoDays, elapsed |-> 0], [early |-> 10, elapsed |-> 1]}

\* Values of the date input: cleared, and a date on each side of a year's end.
SelectableDates ==
    {<<>>, DateString(2024, 12, 31), DateString(2025, 1, 2)}

\* Entries a previous session may have left in storage.
StoredEntryA ==
    Spread(defaultEntry(DateString(2024, 12, 31)),
           [pulse |-> Str(<<"1", "2", "0">>), bpSys |-> Str(<<"8", "0">>),
            bpDia |-> Str(<<"5", "0">>), bleeding |-> TRUE,
            notes |-> <<"a", "\n", "b">>])
StoredEntryB ==
    Spread(defaultEntry(DateString(2023, 6, 15)), [pulse |-> Str(<<"7", "2">>)])
StoredEntryC ==
    Spread(defaultEntry(DateString(2025, 1, 2)),
           [pulse |-> Str(<<"0">>),
            meds |-> [am |-> [multaq |-> FALSE, edoxaban |-> TRUE, bisoprolol |-> FALSE],
                      pm |-> [multaq |-> TRUE]]])

StoredStores ==
    {Obj(<<>>),
     Obj(<<[k |-> StoredEntryA.date, v |-> StoredEntryA],
           [k |-> StoredEntryB.date, v |-> StoredEntryB]>>),
     Obj(<<[k |-> StoredEntryC.date, v |-> StoredEntryC]>>)}

\* What localStorage may hold at startup: nothing, an empty text, a text
\* that is not JSON, a JSON text that is no object, an array, a store.
StoredItems ==
    {NoItem, EmptyText, GarbageText}
    \cup {JSONText(j) : j \in {Num(0), Num(5), Str(<<>>), Str(<<"x">>), Bool(TRUE),
                               Bool(FALSE), Null}}
    \cup {JSONstringify(Arr(<<>>)), JSONstringify(Arr(<<StoredEntryB>>))}
    \cup {JSONstringify(st) : st \in StoredStores}

\* Texts typed into the vitals fields and the notes area.
PulseTexts ==
    {<<>>, <<"0">>, <<"4", "5">>, <<"7", "2">>, <<"1", "2", "0">>, <<" ", "1", "3", "0", "U+00A0">>,
     <<"1", "1", "0", ".", "5">>, <<"1", "e", "-", "3", "2", "4">>, <<"a", "b">>}
SysTexts ==
    {<<>>, <<"0">>, <<"8", "0">>, <<"2", "e", "3", "0", "8">>, <<"8", "5">>, <<"1", "2", "0">>, <<"-", "5">>,
     <<"8", "9", ".", "9">>,
     <<"0", ".", "0", "0", "0", "0", "0", "0", "0", "0", "0", "0", "8", "9", "e", "1", "2">>}
DiaTexts ==
    {<<>>, <<"0">>, <<"5", "0">>, <<"7", "0">>, <<"0", "x", "3", "B">>,
     <<"5", "9", ".", "9", "9", "9", "9", "9", "9", "9", "9", "9", "9", "9", "9", "9", "9", "9", "9",
       "9", "9", "9", "9">>}
NotesTexts == {<<>>, <<"o", "k", "\n", "\n", "x", ",", "y">>}
FatigueValues == {<<"0">>, <<"1">>, <<"2">>}
SymptomFields == {"dizziness", "syncope", "dyspnea", "edema", "bleeding"}
MorningDrugs == {"multaq", "edoxaban", "bisoprolol"}

\* ------------------------------------------------------------------------
\* The application
\* ------------------------------------------------------------------------

NoDownload == [made |-> FALSE, name |-> <<>>, content |-> <<>>]

entryMutant ==
    IF HasKey(entries, date) THEN Lookup(entries, date)
    ELSE defaultEntry(todayStr)

\* entries[date] || { ...defaultEntry(), date }
entry ==
    IF HasKey(entries, date) THEN Lookup(entries, date)
    ELSE Spread(defaultEntry(todayStr), [date |-> date])

\* The first render: useState(() => loadEntries()).
Load ==
    /\ pc = "boot"
    /\ entries' = loadEntries(storage)
    /\ pc' = "loaded"
    /\ UNCHANGED <<storage, date, todayStr, now, tz, download, steps, fills>>
    /\ UNCHANGED swVars

StartupMutant ==
    /\ pc = "loaded"
    /\ IF ~HasKey(entries, todayStr)
       THEN entries' = SpreadWith(entries, todayStr,
                                  Spread(defaultEntry(todayStr), [date |-> todayStr]))
       ELSE UNCHANGED entries
    /\ pc' = "ready"
    /\ UNCHANGED <<storage, date, todayStr, now, tz, download, steps, fills>>
    /\ UNCHANGED swVars

\* useEffect(..., []): ensure today exists.
Startup ==
    /\ pc = "loaded"
    /\ IF ~HasKey(entries, todayStr)
       THEN LET next == SpreadWith(entries, todayStr,
                                   Spread(defaultEntry(todayStr), [date |-> todayStr]))
            IN  /\ entries' = next
                /\ storage' = saveEntries(next)
       ELSE UNCHANGED <<entries, storage>>
    /\ pc' = "ready"
    /\ UNCHANGED <<date, todayStr, now, tz, download, steps, fills>>
    /\ UNCHANGED swVars

\* One more user action is counted.
UserAction ==
    /\ pc = "ready"
    /\ steps < MaxSteps
    /\ steps' = steps + 1

updateEntry(patch) ==
    LET next == Spread(entry, patch)
        nextEntries == SpreadWith(entries, date, next)
    IN  /\ pc = "ready"
        /\ entries' = nextEntries
        /\ storage' = saveEntries(nextEntries)
        /\ UNCHANGED <<date, pc, todayStr, now, tz, download>>
        /\ UNCHANGED swVars

setDateMutant(value) ==
    /\ pc = "ready"
    /\ date' = value
    /\ entries' = (IF HasKey(entries, value) THEN entries
                   ELSE SpreadWith(entries, value,
                                   Spread(defaultEntry(todayStr), [date |-> value])))
    /\ storage' = saveEntries(entries')
    /\ UNCHANGED <<pc, todayStr, now, tz, download>>
    /\ UNCHANGED swVars

\* onChange of the date input
setDate(value) ==
    /\ pc = "ready"
    /\ date' = value
    /\ UNCHANGED <<storage, entries, pc, todayStr, now, tz, download>>
    /\ UNCHANGED swVars

\* onChange of the three vitals inputs, the fatigue select and the notes area
setPulse(text) == updateEntry([pulse |-> Str(text)])
setBpSys(text) == updateEntry([bpSys |-> Str(text)])
setBpDia(text) == updateEntry([bpDia |-> Str(text)])
setFatigue(value) == updateEntry([fatigue |-> value])
setNotes(text) == updateEntry([notes |-> text])

\* A Toggle shows checked = !!value and reports the box's new state.
Toggled(value) == ~value

\* onChange of a symptom Toggle
SymptomPatch(e, field) == [f \in {field} |-> Toggled(e[field])]
toggleSymptom(field) == updateEntry(SymptomPatch(entry, field))

MedsAmPatchMutant(e, drug) ==
    [meds |-> [e.meds EXCEPT !.am = [defaultEntry(e.date).meds.am EXCEPT
                                        ![drug] = Toggled(e.meds.am[drug])]]]

\* { meds: { ...entry.meds, am: { ...entry.meds.am, [drug]: v } } }
MedsAmPatch(e, drug) ==
    [meds |-> Spread(e.meds, [am |-> Spread(e.meds.am,
                                            [f \in {drug} |-> Toggled(e.meds.am[drug])])])]

\* { meds: { ...entry.meds, pm: { ...entry.meds.pm, multaq: v } } }
MedsPmPatch(e) ==
    [meds |-> Spread(e.meds, [pm |-> Spread(e.meds.pm,
                                            [multaq |-> Toggled(e.meds.pm.multaq)])])]

toggleMedsAm(drug) == updateEntry(MedsAmPatch(entry, drug))
toggleMedsPm == updateEntry(MedsPmPatch(entry))

resetTodayMutant ==
    LET nextEntries == SpreadWithout(entries, todayStr)
    IN  /\ pc = "ready"
        /\ entries' = nextEntries
        /\ storage' = saveEntries(nextEntries)
        /\ UNCHANGED <<date, pc, todayStr, now, tz, download>>
        /\ UNCHANGED swVars

resetToday ==
    LET nextEntries == SpreadWithout(entries, date)
    IN  /\ pc = "ready"
        /\ entries' = nextEntries
        /\ storage' = saveEntries(nextEntries)
        /\ UNCHANGED <<date, pc, todayStr, now, tz, download>>
        /\ UNCHANGED swVars

fillDemo(seed, timing) ==
    LET map == DemoMap(ClockReads(now, timing.early, timing.elapsed), tz, todayStr, seed)
    IN  /\ pc = "ready"
        /\ entries' = map
        /\ storage' = saveEntries(map)
        /\ now' = now + timing.elapsed
        /\ UNCHANGED <<date, pc, todayStr, tz, download>>
        /\ UNCHANGED swVars

exportCSV ==
    /\ pc = "ready"
    /\ download' = [made |-> TRUE,
                    name |-> CSVFileName(fmtDate(now, tz)),
                    content |-> CSVText(entries)]
    /\ UNCHANGED <<storage, entries, date, pc, todayStr, now, tz>>
    /\ UNCHANGED swVars

\* Time passes while the page stays open.
Tick(minutes) ==
    /\ pc = "ready"
    /\ now' = now + minutes
    /\ UNCHANGED <<storage, entries, date, pc, todayStr, tz, download>>
    /\ UNCHANGED swVars


\* ------------------------------------------------------------------------
\* The cache worker
\* ------------------------------------------------------------------------

CACHE == "afibcare-v1"
ASSETS == {"/", "/index.html", "/manifest.webmanifest"}

\* Caches the origin may hold before the worker is installed, and the
\* requests the page may make.
CacheNames == {"afibcare-v1", "afibcare-v0", "images"}
CacheContents == {{}, {"/", "/assets/app.js"}, {"/icons/icon-192.png"}}
RequestURLs == ASSETS \cup {"/assets/app.js", "/icons/icon-192.png"}

\* The cache storages in which each name is absent or holds one of the contents.
InitialCacheStorages ==
    {{[name |-> n, urls |-> f[n]] : n \in DOMAIN f} :
        f \in UNION {[names -> CacheContents] : names \in SUBSET CacheNames}}

NoResponse == [url |-> "", from |-> "none"]

\* caches.open(name): the cache is created when there is none of that name.
CacheOpen(cs, name) ==
    IF \E c \in cs : c.name = name THEN cs ELSE cs \cup {[name |-> name, urls |-> {}]}

\* cache.addAll(urls) on the cache called name
CacheAddAll(cs, name, urls) ==
    {IF c.name = name THEN [c EXCEPT !.urls = c.urls \cup urls] ELSE c : c \in cs}

\* caches.match(url): whether any cache holds a response for url
CacheMatch(cs, url) == \E c \in cs : url \in c.urls

\* No waitUntil promise is outstanding.
NoJob == [step |-> "none", items |-> {}]

\* The install event (sw.js:3-5): e.waitUntil(caches.open(CACHE).then(...))
\* starts caches.open and returns; the worker is installing until the
\* promise settles.
InstallEvent ==
    /\ swState = "parsed"
    /\ swState' = "installing"
    /\ job' = [step |-> "open", items |-> {}]
    /\ UNCHANGED <<cacheStorage, netUp, response, fetches, deleted, present, requests>>
    /\ UNCHANGED appVars

\* caches.open(CACHE) resolves: the cache exists, and c.addAll(ASSETS)
\* starts one fetch for each asset.
InstallOpened ==
    /\ swState = "installing"
    /\ job.step = "open"
    /\ cacheStorage' = CacheOpen(cacheStorage, CACHE)
    /\ job' = [step |-> "addAll", items |-> ASSETS]
    /\ UNCHANGED <<swState, netUp, response, fetches, deleted, present, requests>>
    /\ UNCHANGED appVars

\* One of addAll's fetches settles, with the network as it is then.  When
\* it fails addAll rejects, nothing is stored and the worker is discarded;
\* when the last one succeeds the responses are ready to be stored.
InstallFetched(url) ==
    /\ swState = "installing"
    /\ job.step = "addAll"
    /\ url \in job.items
    /\ IF netUp
       THEN /\ job' = IF job.items = {url} THEN [step |-> "put", items |-> ASSETS]
                      ELSE [job EXCEPT !.items = job.items \ {url}]
            /\ swState' = swState
       ELSE /\ job' = NoJob
            /\ swState' = "redundant"
    /\ UNCHANGED <<cacheStorage, netUp, response, fetches, deleted, present, requests>>
    /\ UNCHANGED appVars

\* addAll stores all the responses and resolves: the worker is installed.
InstallStored ==
    /\ swState = "installing"
    /\ job.step = "put"
    /\ cacheStorage' = CacheAddAll(cacheStorage, CACHE, job.items)
    /\ swState' = "installed"
    /\ job' = NoJob
    /\ UNCHANGED <<netUp, response, fetches, deleted, present, requests>>
    /\ UNCHANGED appVars

\* caches.keys()
CacheKeys(cs) == {c.name : c \in cs}

DeletedOnActivateMutant(keys) == keys \ {"afibcare-v0"}

\* keys.map(k => k !== CACHE && caches.delete(k)): the keys deleted
DeletedOnActivate(keys) == {k \in keys : k # CACHE}

\* caches.delete(k) for every k of names
CachesDelete(cs, names) == {c \in cs : c.name \notin names}

\* The activate event (sw.js:6-8): e.waitUntil(caches.keys().then(...))
\* starts caches.keys and returns.
ActivateEvent ==
    /\ swState = "installed"
    /\ swState' = "activating"
    /\ job' = [step |-> "keys", items |-> {}]
    /\ present' = cacheStorage
    /\ UNCHANGED <<cacheStorage, netUp, response, fetches, deleted, requests>>
    /\ UNCHANGED appVars

\* caches.keys() resolves: the callback calls caches.delete(k) for every
\* key other than CACHE; the deletions are outstanding.
ActivateKeys ==
    /\ swState = "activating"
    /\ job.step = "keys"
    /\ job' = [step |-> "delete", items |-> DeletedOnActivate(CacheKeys(cacheStorage))]
    /\ deleted' = deleted \cup DeletedOnActivate(CacheKeys(cacheStorage))
    /\ UNCHANGED <<swState, cacheStorage, netUp, response, fetches, present, requests>>
    /\ UNCHANGED appVars

\* One caches.delete(k) takes effect and resolves.
CacheDeleted(k) ==
    /\ swState = "activating"
    /\ job.step = "delete"
    /\ k \in job.items
    /\ cacheStorage' = CachesDelete(cacheStorage, {k})
    /\ job' = [job EXCEPT !.items = job.items \ {k}]
    /\ UNCHANGED <<swState, netUp, response, fetches, deleted, present, requests>>
    /\ UNCHANGED appVars

\* Promise.all resolves once every deletion has: the worker is activated.
ActivateDone ==
    /\ swState = "activating"
    /\ job.step = "delete"
    /\ job.items = {}
    /\ swState' = "activated"
    /\ job' = NoJob
    /\ present' = {}
    /\ UNCHANGED <<cacheStorage, netUp, response, fetches, deleted, requests>>
    /\ UNCHANGED appVars

\* A request the worker has been handed: caches.match outstanding
\* ("match"), fetch() outstanding ("fetch"), or answered ("done").
Request(url) == [url |-> url, stage |-> "match", from |-> "none"]

AfterMatchMutant(cs, req) ==
    IF req.url \in ASSETS /\ CacheMatch(cs, req.url)
    THEN [req EXCEPT !.stage = "done", !.from = "cache"]
    ELSE [req EXCEPT !.stage = "fetch"]

\* caches.match(e.request).then(r => r || fetch(e.request)): with a cached
\* response the event is answered with it; with none fetch() is called.
AfterMatch(cs, req) ==
    IF CacheMatch(cs, req.url)
    THEN [req EXCEPT !.stage = "done", !.from = "cache"]
    ELSE [req EXCEPT !.stage = "fetch"]

\* fetch(e.request) settles: the network's response, or a network error.
AfterFetch(up, req) ==
    [req EXCEPT !.stage = "done", !.from = IF up THEN "network" ELSE "error"]

\* A fetch event for a GET request of url, dispatched to the active worker
\* (sw.js:9-11): e.respondWith(caches.match(e.request).then(...)) starts
\* caches.match and returns.
FetchEvent(url) ==
    /\ swState = "activated"
    /\ fetches < MaxFetches
    /\ requests' = Append(requests, Request(url))
    /\ fetches' = fetches + 1
    /\ UNCHANGED <<swState, cacheStorage, netUp, response, deleted, job, present>>
    /\ UNCHANGED appVars

\* caches.match of the i-th request resolves.
MatchResolved(i) ==
    /\ i \in 1..Len(requests)
    /\ requests[i].stage = "match"
    /\ requests' = [requests EXCEPT ![i] = AfterMatch(cacheStorage, requests[i])]
    /\ response' = IF requests'[i].stage = "done"
                   THEN [url |-> requests'[i].url, from |-> requests'[i].from]
                   ELSE response
    /\ UNCHANGED <<swState, cacheStorage, netUp, fetches, deleted, job, present>>
    /\ UNCHANGED appVars

\* fetch() of the i-th request settles, with the network as it is then.
FetchResolved(i) ==
    /\ i \in 1..Len(requests)
    /\ requests[i].stage = "fetch"
    /\ requests' = [requests EXCEPT ![i] = AfterFetch(netUp, requests[i])]
    /\ response' = [url |-> requests'[i].url, from |-> requests'[i].from]
    /\ UNCHANGED <<swState, cacheStorage, netUp, fetches, deleted, job, present>>
    /\ UNCHANGED appVars

\* The network goes down or comes back.
NetChange ==
    /\ netUp' = ~netUp
    /\ UNCHANGED <<swState, cacheStorage, response, fetches, deleted, job, present, requests>>
    /\ UNCHANGED appVars

\* ------------------------------------------------------------------------
\* Specifications
\* ------------------------------------------------------------------------

AppInit ==
    /\ storage \in StoredItems
    /\ entries = EmptyObject
    /\ \E h \in Hosts : now = h.clock /\ tz = h.zone
    /\ todayStr = fmtDate(now, tz)
    /\ date = todayStr
    /\ pc = "boot"
    /\ download = NoDownload
    /\ steps = 0
    /\ fills = 0

Init ==
    /\ AppInit
    /\ swState = "parsed"
    /\ cacheStorage = {}
    /\ netUp = TRUE
    /\ response = NoResponse
    /\ fetches = 0
    /\ deleted = {}
    /\ job = NoJob
    /\ present = {}
    /\ requests = <<>>

\* The form's handlers, each with the inputs the application run offers it.
EditPulse == UserAction /\ UNCHANGED fills /\ setPulse(<<"1", "2", "0">>)
EditBpSys == UserAction /\ UNCHANGED fills /\ setBpSys(<<"8", "5">>)
EditBpDia == UserAction /\ UNCHANGED fills /\ setBpDia(<<"7", "0">>)
EditFatigue == UserAction /\ UNCHANGED fills /\ \E v \in {<<"1">>, <<"2">>} : setFatigue(v)
EditNotes == UserAction /\ UNCHANGED fills /\ \E t \in NotesTexts : setNotes(t)
ToggleSymptom == UserAction /\ UNCHANGED fills /\ \E f \in SymptomFields : toggleSymptom(f)
ToggleMedsAm == UserAction /\ UNCHANGED fills /\ \E drug \in MorningDrugs : toggleMedsAm(drug)
ToggleMedsPm == UserAction /\ UNCHANGED fills /\ toggleMedsPm
SelectDate == UserAction /\ UNCHANGED fills /\ \E d \in SelectableDates : setDate(d)
Reset == UserAction /\ UNCHANGED fills /\ resetToday
FillDemo ==
    /\ UserAction
    /\ fills' = fills + 1
    /\ \E seed \in 1..MaxSeed : \E timing \in LoopTimings : fillDemo(seed, timing)
Export == UserAction /\ UNCHANGED fills /\ exportCSV
ClockAdvance == UserAction /\ UNCHANGED fills /\ \E m \in ClockAdvances : Tick(m)

Next ==
    \/ Load
    \/ Startup
    \/ EditPulse
    \/ EditBpSys
    \/ EditBpDia
    \/ EditFatigue
    \/ EditNotes
    \/ ToggleSymptom
    \/ ToggleMedsAm
    \/ ToggleMedsPm
    \/ SelectDate
    \/ Reset
    \/ FillDemo
    \/ Export
    \/ ClockAdvance

Spec == Init /\ [][Next]_vars

\* Whether every entry of a store has its key as its date field.
DatesAreKeys(store) ==
    /\ store.t = "obj"
    /\ \A i \in 1..Len(store.v) : store.v[i].v.date = store.v[i].k

\* The application started on an empty store or on a stored mapping whose
\* entries are each stored under their own date.
InitKeyed ==
    /\ Init
    /\ DatesAreKeys(loadEntries(storage))

SpecKeyed == InitKeyed /\ [][Next]_vars

\* The check-in form on its own: any number of edits of the vitals and of
\* the three symptoms the danger flags read, on the date selected at startup.
FormPulse == \E t \in PulseTexts : setPulse(t) /\ UNCHANGED <<steps, fills>>
FormBpSys == \E t \in SysTexts : setBpSys(t) /\ UNCHANGED <<steps, fills>>
FormBpDia == \E t \in DiaTexts : setBpDia(t) /\ UNCHANGED <<steps, fills>>
FormSymptom ==
    \E f \in {"bleeding", "syncope", "dyspnea"} : toggleSymptom(f) /\ UNCHANGED <<steps, fills>>

NextForm ==
    \/ Load
    \/ Startup
    \/ FormPulse
    \/ FormBpSys
    \/ FormBpDia
    \/ FormSymptom

SpecForm == Init /\ [][NextForm]_vars

\* The cache worker on its own, from any cache storage and network state.
InitSW ==
    /\ storage = NoItem
    /\ entries = EmptyObject
    /\ now = DaysFromCivil(2025, 1, 1) * MinutesPerDay + 20 * 60
    /\ tz = Seoul
    /\ todayStr = fmtDate(now, tz)
    /\ date = todayStr
    /\ pc = "boot"
    /\ download = NoDownload
    /\ steps = 0
    /\ fills = 0
    /\ swState = "parsed"
    /\ cacheStorage \in InitialCacheStorages
    /\ netUp \in BOOLEAN
    /\ response = NoResponse
    /\ fetches = 0
    /\ deleted = {}
    /\ job = NoJob
    /\ present = {}
    /\ requests = <<>>

NextSW ==
    \/ InstallEvent
    \/ InstallOpened
    \/ \E url \in ASSETS : InstallFetched(url)
    \/ InstallStored
    \/ ActivateEvent
    \/ ActivateKeys
    \/ \E k \in CacheNames : CacheDeleted(k)
    \/ ActivateDone
    \/ \E url \in RequestURLs : FetchEvent(url)
    \/ \E i \in 1..MaxFetches : MatchResolved(i)
    \/ \E i \in 1..MaxFetches : FetchResolved(i)
    \/ NetChange

SpecSW == InitSW /\ [][NextSW]_vars


\* ------------------------------------------------------------------------
\* Properties
\* ------------------------------------------------------------------------

\* Every key other than d is a key of both stores, with the same entry.
OthersUnchanged(before, after, d) ==
    /\ Keys(after) \ {d} = Keys(before) \ {d}
    /\ \A k \in Keys(before) \ {d} : Lookup(after, k) = Lookup(before, k)

\* The entry at the selected date before a step: the stored one, or the
\* default entry carrying that date.
EntryBefore ==
    IF HasKey(entries, date) THEN Lookup(entries, date)
    ELSE [defaultEntry(todayStr) EXCEPT !.date = date]

\* After the step the selected date holds the entry it had before with the
\* fields of patch replaced, and no other date has changed.
MergedInto(patch) ==
    /\ HasKey(entries', date)
    /\ DOMAIN Lookup(entries', date) = DOMAIN EntryBefore
    /\ \A f \in DOMAIN EntryBefore :
          Lookup(entries', date)[f] = (IF f \in DOMAIN patch THEN patch[f] ELSE EntryBefore[f])
    /\ OthersUnchanged(entries, entries', date)

\* After the step only the meds field of the selected date's entry differs,
\* and in it only the flag named has changed, to its negation.
MedsFlagToggled(slot, drug) ==
    LET old == EntryBefore
        new == Lookup(entries', date)
    IN  /\ HasKey(entries', date)
        /\ \A f \in (DOMAIN old) \ {"meds"} : new[f] = old[f]
        /\ new.meds[slot][drug] = ~old.meds[slot][drug]
        /\ \A s \in {"am", "pm"} : \A g \in DOMAIN old.meds[s] :
              (s # slot \/ g # drug) => new.meds[s][g] = old.meds[s][g]
        /\ DOMAIN new.meds.am = DOMAIN old.meds.am
        /\ DOMAIN new.meds.pm = DOMAIN old.meds.pm
        /\ OthersUnchanged(entries, entries', date)

\* C1: every patch the form issues is merged into the entry of the selected
\* date: the patched fields are replaced, every other field keeps its value
\* (the default's when the date had no entry), toggling one medication flag
\* leaves the three others as they were, and no other date changes.
C1_UpdateEntryMerges ==
    [][/\ \A t \in PulseTexts : setPulse(t) => MergedInto([pulse |-> Str(t)])
       /\ \A t \in SysTexts : setBpSys(t) => MergedInto([bpSys |-> Str(t)])
       /\ \A t \in DiaTexts : setBpDia(t) => MergedInto([bpDia |-> Str(t)])
       /\ \A v \in FatigueValues : setFatigue(v) => MergedInto([fatigue |-> v])
       /\ \A t \in NotesTexts : setNotes(t) => MergedInto([notes |-> t])
       /\ \A f \in SymptomFields :
             toggleSymptom(f) => MergedInto([g \in {f} |-> ~EntryBefore[f]])
       /\ \A drug \in MorningDrugs : toggleMedsAm(drug) => MedsFlagToggled("am", drug)
       /\ toggleMedsPm => MedsFlagToggled("pm", "multaq")]_vars

\* A morning flag has been toggled on an entry whose other medication flags
\* were set differently from one another, and they are as they were.
C1_Witness ==
    /\ pc = "ready"
    /\ steps = 1
    /\ date = StoredEntryC.date
    /\ HasKey(entries, date)
    /\ Lookup(entries, date).meds =
          [am |-> [multaq |-> TRUE, edoxaban |-> TRUE, bisoprolol |-> FALSE],
           pm |-> [multaq |-> TRUE]]
    /\ Lookup(entries, date).pulse = StoredEntryC.pulse

\* The flag is one of those of a flag list.
Raised(flags, flag) == \E i \in 1..Len(flags) : flags[i] = flag

HasFlag(flag) == Raised(dangerFlags(entry), flag)

\* A parsed value that is a number other than 0 (and not NaN): a finite
\* one or an infinity.
IsNonZeroNumber(n) == (n.t = "num" /\ n.d # <<>>) \/ n.t = "inf"

\* C2, as stated: the low-blood-pressure flag is raised exactly when both
\* parsed values are non-zero numbers and systolic < 90 and diastolic < 60.
C2_LowBPWhenBothBelow ==
    pc = "ready" =>
        LET sys == Number(entry.bpSys)
            dia == Number(entry.bpDia)
        IN  HasFlag(FlagLowBP) <=>
                (IsNonZeroNumber(sys) /\ IsNonZeroNumber(dia) /\ Below(sys, 90) /\ Below(dia, 60))

\* C2, amended: the low-blood-pressure flag is raised exactly when both
\* parsed values are non-zero numbers and systolic < 90 or diastolic < 60.
C2_LowBPWhenEitherBelow ==
    pc = "ready" =>
        LET sys == Number(entry.bpSys)
            dia == Number(entry.bpDia)
        IN  HasFlag(FlagLowBP) <=>
                (IsNonZeroNumber(sys) /\ IsNonZeroNumber(dia) /\ (Below(sys, 90) \/ Below(dia, 60)))

\* Systolic 85 over diastolic 70: only the systolic value is below its
\* threshold, and the flag is raised.
C2_Witness ==
    /\ pc = "ready"
    /\ entry.bpSys = Str(<<"8", "5">>)
    /\ entry.bpDia = Str(<<"7", "0">>)
    /\ HasFlag(FlagLowBP)

FlagOrder == <<FlagPulse, FlagLowBP, FlagBleeding, FlagSyncope, FlagDyspnea>>

FlagRank(flag) == CHOOSE i \in 1..Len(FlagOrder) : FlagOrder[i] = flag

\* C3: the danger flags of the selected entry are the flags that apply, in
\* the order pulse, low blood pressure, bleeding, syncope, dyspnea, each at
\* most once; pulse 120, 80 over 50 and bleeding give exactly the pulse,
\* low-blood-pressure and bleeding flags in that order.
C3_DangerFlagsInFixedOrder ==
    pc = "ready" =>
        LET flags == dangerFlags(entry)
            p == Number(entry.pulse)
            sys == Number(entry.bpSys)
            dia == Number(entry.bpDia)
        IN  /\ \A i \in 1..Len(flags) : \E r \in 1..Len(FlagOrder) : FlagOrder[r] = flags[i]
            /\ \A i, j \in 1..Len(flags) : i < j => FlagRank(flags[i]) < FlagRank(flags[j])
            /\ Raised(flags, FlagPulse) <=> (IsNonZeroNumber(p) /\ (Below(p, 50) \/ Above(p, 110)))
            /\ Raised(flags, FlagLowBP) <=>
                  (IsNonZeroNumber(sys) /\ IsNonZeroNumber(dia) /\ (Below(sys, 90) \/ Below(dia, 60)))
            /\ Raised(flags, FlagBleeding) <=> entry.bleeding
            /\ Raised(flags, FlagSyncope) <=> entry.syncope
            /\ Raised(flags, FlagDyspnea) <=> entry.dyspnea
            /\ (/\ entry.pulse = Str(<<"1", "2", "0">>)
                /\ entry.bpSys = Str(<<"8", "0">>)
                /\ entry.bpDia = Str(<<"5", "0">>)
                /\ entry.bleeding /\ ~entry.syncope /\ ~entry.dyspnea)
               => flags = <<FlagPulse, FlagLowBP, FlagBleeding>>

\* The entry of the claim's example, typed into the form, with its three flags.
C3_Witness ==
    /\ pc = "ready"
    /\ entry.pulse = Str(<<"1", "2", "0">>)
    /\ entry.bpSys = Str(<<"8", "0">>)
    /\ entry.bpDia = Str(<<"5", "0">>)
    /\ entry.bleeding /\ ~entry.syncope /\ ~entry.dyspnea
    /\ date = todayStr
    /\ dangerFlags(entry) = <<FlagPulse, FlagLowBP, FlagBleeding>>

\* C4: loadEntries returns the parsed value when the stored text is the
\* JSON of a mapping, and an empty mapping in every other case: nothing
\* stored, an empty text, a text that is not JSON, JSON of a number, a
\* string, a boolean, null or an array.
C4_LoadEntriesEmptyUnlessMapping ==
    pc = "loaded" =>
        IF storage.kind = "text" /\ storage.syntax = "json" /\ storage.doc.t = "obj"
        THEN entries = Revive(storage.doc)
        ELSE entries = EmptyObject

\* A step of one of the form's edit handlers.
FormUpdate ==
    \/ \E t \in PulseTexts : setPulse(t)
    \/ \E t \in SysTexts : setBpSys(t)
    \/ \E t \in DiaTexts : setBpDia(t)
    \/ \E v \in FatigueValues : setFatigue(v)
    \/ \E t \in NotesTexts : setNotes(t)
    \/ \E f \in SymptomFields : toggleSymptom(f)
    \/ \E drug \in MorningDrugs : toggleMedsAm(drug)
    \/ toggleMedsPm

\* C5: an edit leaves the selected date selected and every other date's
\* entry as it was, and a reset then leaves the store without the selected
\* date's key and every other date's entry as it was: after an edit and a
\* reset the store has no key for the date and is otherwise as before both.
C5_ResetAfterUpdateRemovesKey ==
    [][/\ FormUpdate => (date' = date /\ OthersUnchanged(entries, entries', date))
       /\ resetToday =>
             (/\ date' = date
              /\ ~HasKey(entries', date)
              /\ OthersUnchanged(entries, entries', date))]_vars

\* After an edit and a reset of today's entry: today's key is gone, the
\* entries loaded for the two other dates are still there.
C5_Witness ==
    /\ pc = "ready"
    /\ steps = 2
    /\ date = todayStr
    /\ ~HasKey(entries, date)
    /\ HasKey(entries, StoredEntryA.date)
    /\ HasKey(entries, StoredEntryB.date)


\* The day number of the local calendar date at the clock's time.
LocalDayNumber == (now - GetTimezoneOffset(tz, now)) \div MinutesPerDay

\* The 28 calendar dates that end at today's local date.
LastFourWeeks == {ISODate(n * MinutesPerDay) : n \in (LocalDayNumber - 27)..LocalDayNumber}

\* The stored text is the JSON of a mapping; PersistedStore is that mapping.
PersistedIsStore ==
    storage.kind = "text" /\ storage.syntax = "json" /\ storage.doc.t = "obj"
PersistedStore == Revive(storage.doc)

\* C6: after fillDemo the store in memory and the persisted store hold
\* exactly 28 keys, the 28 consecutive calendar dates that end today (the
\* day on which the handler ends), each with a generated entry: nothing of
\* the previous store remains.
C6_FillDemoReplacesStore ==
    [][fills' = fills + 1 =>
          /\ entries'.t = "obj"
          /\ Len(entries'.v) = 28
          /\ Cardinality(LastFourWeeks') = 28
          /\ Keys(entries') = LastFourWeeks'
          /\ entries'.v[28].k = ISODate(LocalDayNumber' * MinutesPerDay)
          /\ \A i \in 1..28 :
                /\ entries'.v[i].v.date = entries'.v[i].k
                /\ entries'.v[i].v.pulse.t = "num"
                /\ entries'.v[i].v.meds.am.bisoprolol
          /\ PersistedIsStore'
          /\ Revive(storage'.doc) = entries']_vars

\* The dates of the series are in non-decreasing order.
LabelsNonDecreasing(series) ==
    \A i \in 1..(Len(series) - 1) : localeCompare(series[i].date, series[i + 1].date) <= 0

\* C7, as stated: the series has one element per stored entry and its date
\* values are non-decreasing.
C7_SeriesDatesNonDecreasing ==
    pc = "ready" =>
        /\ Len(daysData(entries)) = Len(Values(entries))
        /\ LabelsNonDecreasing(daysData(entries))

\* How many of the dates compare below, and not above, the j-th one.
CountBelow(dates, j) ==
    Cardinality({m \in 1..Len(dates) : localeCompare(dates[m], dates[j]) < 0})
CountNotAbove(dates, j) ==
    Cardinality({m \in 1..Len(dates) : localeCompare(dates[m], dates[j]) <= 0})

\* The dates put in non-decreasing order: place i holds the date that has
\* fewer than i dates below it and at least i dates not above it.
InOrder(dates) ==
    LET below == <<>> \o [j \in 1..Len(dates) |-> CountBelow(dates, j)]
        notAbove == <<>> \o [j \in 1..Len(dates) |-> CountNotAbove(dates, j)]
    IN  <<>> \o [i \in 1..Len(dates) |->
                    dates[CHOOSE j \in 1..Len(dates) : below[j] < i /\ i <= notAbove[j]]]

\* The dates of the store's entries, in property order.
StoredDates(store) == <<>> \o [i \in 1..Len(Values(store)) |-> Values(store)[i].date]

\* All dates are YYYY-MM-DD texts of one year.
SameYear(dates) ==
    \A i, j \in 1..Len(dates) :
        Len(dates[i]) = 10 /\ SubSeq(dates[i], 1, 4) = SubSeq(dates[j], 1, 4)

\* C7, amended: the series has one element per stored entry, in the
\* non-decreasing order of the entries' full dates, each carrying its
\* entry's date without the year; these date values are non-decreasing
\* when all entries are of one calendar year.
C7_SeriesOrderedByFullDate ==
    pc = "ready" =>
        LET series == <<>> \o daysData(entries)
            dates == StoredDates(entries)
            ordered == InOrder(dates)
        IN  /\ Len(series) = Len(dates)
            /\ \A i \in 1..Len(dates) : series[i].date = SliceFrom(ordered[i], 5)
            /\ SameYear(dates) => LabelsNonDecreasing(series)

\* A store with entries of 2024 and of 2025: the series runs from December
\* into January, so that a date value is followed by a smaller one.
C7_Witness ==
    /\ pc = "ready"
    /\ HasKey(entries, DateString(2024, 12, 31))
    /\ HasKey(entries, DateString(2025, 1, 2))
    /\ ~LabelsNonDecreasing(daysData(entries))
    /\ Len(daysData(entries)) = Len(entries.v)

\* The positions of the line breaks of a text, in order, and its lines.
Breaks(text) ==
    LET IsBreak(p) == text[p] = "\n"
    IN  SelectSeq([p \in 1..Len(text) |-> p], IsBreak)
LineCount(text) == Len(Breaks(text)) + 1
LineStart(breaks, i) == IF i = 1 THEN 1 ELSE breaks[i - 1] + 1

\* Whether text has prefix at position start.
HasPrefixAt(text, start, prefix) ==
    /\ start + Len(prefix) - 1 <= Len(text)
    /\ SubSeq(text, start, start + Len(prefix) - 1) = prefix

\* C8: the exported CSV has one line more than the store has entries; the
\* first is the header of 15 columns, the others begin with the entries'
\* dates in ascending order, and an entry whose notes hold line breaks
\* still takes one line.
C8_CSVOneRowPerEntry ==
    [][download' # download =>
          LET csv == download'.content
              dates == StoredDates(entries)
              ordered == InOrder(dates)
              header == Join(CSVHeader, <<",">>)
              breaks == Breaks(csv)
          IN  /\ Len(breaks) + 1 = Len(dates) + 1
              /\ Len(CSVHeader) = 15
              /\ CountChar(header, ",") = 14
              /\ HasPrefixAt(csv, 1, header)
              /\ Len(dates) > 0 => csv[Len(header) + 1] = "\n"
              /\ \A i \in 1..Len(dates) :
                    HasPrefixAt(csv, LineStart(breaks, i + 1),
                                ordered[i] \o <<",">>)]_vars

\* A store with notes of several lines has been exported.
C8_Witness ==
    /\ pc = "ready"
    /\ download.made
    /\ \E i \in 1..Len(entries.v) : CountChar(entries.v[i].v.notes, "\n") > 0
    /\ LineCount(download.content) = Len(entries.v) + 1
    /\ Len(entries.v) >= 3

\* C9: once the startup effect has run, and after every action since, the
\* persisted store equals the store in memory.
C9_PersistedEqualsMemory ==
    pc = "ready" => (PersistedIsStore /\ PersistedStore = entries)

\* Nothing was stored at startup, and the store has since been edited and
\* reset: what is persisted is what is in memory.
C9_Witness ==
    /\ pc = "ready"
    /\ steps = 2
    /\ entries = EmptyObject
    /\ PersistedIsStore
    /\ PersistedStore = EmptyObject
    /\ tz = NewYork

\* C10, as stated: a request for a listed asset is served cache-first, and
\* any other request network-first, the cache used only when the network
\* fails.
C10_AssetsCacheFirstOthersNetworkFirst ==
    [][\A i \in 1..MaxFetches : (MatchResolved(i) \/ FetchResolved(i)) =>
          LET req == requests[i]
              cached == CacheMatch(cacheStorage, req.url)
          IN  IF req.url \in ASSETS
              THEN /\ cached => requests'[i].from = "cache"
                   /\ ~cached => requests'[i].from # "cache"
              ELSE /\ req.stage = "match" => requests'[i].stage = "fetch"
                   /\ requests'[i].from = "cache" => (req.stage = "fetch" /\ ~netUp)]_vars

\* C10, amended: every request, for a listed asset or not, is served
\* cache-first.  When caches.match resolves, a request a cache holds is
\* answered from the cache, whatever the network's state, and for any other
\* request fetch() is called; when fetch() settles, the request, which no
\* cache holds, is answered by the network as it is then, or fails with it.
C10_EveryRequestCacheFirst ==
    [][\A i \in 1..MaxFetches :
          /\ MatchResolved(i) =>
                IF CacheMatch(cacheStorage, requests[i].url)
                THEN /\ requests'[i] = [url |-> requests[i].url, stage |-> "done", from |-> "cache"]
                     /\ response' = [url |-> requests[i].url, from |-> "cache"]
                ELSE /\ requests'[i] = [url |-> requests[i].url, stage |-> "fetch", from |-> "none"]
                     /\ response' = response
          /\ FetchResolved(i) =>
                /\ ~CacheMatch(cacheStorage, requests[i].url)
                /\ requests'[i] = [url |-> requests[i].url, stage |-> "done",
                                   from |-> IF netUp THEN "network" ELSE "error"]
                /\ response' = [url |-> requests[i].url, from |-> requests'[i].from]]_vars

\* With the network up, a request that is no listed asset has been answered
\* from the cache, ahead of an earlier request whose fetch() is outstanding.
C10_Witness ==
    /\ swState = "activated"
    /\ netUp
    /\ Len(requests) = 2
    /\ requests[1].stage = "fetch"
    /\ requests[2].stage = "done"
    /\ requests[2].from = "cache"
    /\ requests[2].url \notin ASSETS
    /\ response = [url |-> requests[2].url, from |-> "cache"]
    /\ \E c \in cacheStorage : c.name = CACHE /\ requests[2].url \in c.urls

\* C11: when the activate handler completes, every cache present at
\* activation whose name differs from afibcare-v1 has been deleted, and the
\* cache named afibcare-v1 has not: it is still there with its contents.
C11_ActivateDeletesOtherCaches ==
    [][(swState = "activating" /\ swState' = "activated") =>
          /\ \A c \in present :
                c.name # "afibcare-v1" =>
                    /\ c.name \in deleted'
                    /\ ~\E c2 \in cacheStorage' : c2.name = c.name
          /\ \A c \in present : c.name = "afibcare-v1" => c \in cacheStorage'
          /\ "afibcare-v1" \notin deleted'
          /\ \E c \in cacheStorage' : c.name = "afibcare-v1"]_vars

\* The worker has activated where an older version's cache and a cache of
\* another kind were present, and the current cache held more than the assets.
C11_Witness ==
    /\ swState = "activated"
    /\ deleted = {"afibcare-v0", "images"}
    /\ cacheStorage = {[name |-> "afibcare-v1", urls |-> ASSETS \cup {"/assets/app.js"}]}

\* C12 as stated: selecting a date leaves the store in memory and the
\* persisted store as they were, and the key of the selected date appears
\* in the store only in a step of a field edit made with that date selected.
C12_KeyAppearsOnlyByEdit ==
    [][/\ \A d \in SelectableDates :
             setDate(d) => (entries' = entries /\ storage' = storage)
       /\ (pc = "ready" /\ ~HasKey(entries, date) /\ HasKey(entries', date))
             => (FormUpdate /\ date' = date)]_vars

\* C12, with fillDemo set apart: selecting a date leaves the store in
\* memory and the persisted store as they were, and a date without an entry
\* is then viewed as the default entry with that date; the key of the
\* selected date appears in the store only in a step of a field edit made
\* with that date selected, which always makes it appear, in memory and
\* persisted, or in a step of fillDemo, which makes it appear only when
\* the date is one of the days it generates, from 27 days before the day
\* it starts on to the day it ends on, and, when the clock stands still
\* while it runs, exactly when the date is one of the 28 that end today.
C12_SelectingLeavesStoreUnchanged ==
    [][/\ \A d \in SelectableDates :
             setDate(d) =>
                /\ entries' = entries
                /\ storage' = storage
                /\ ~HasKey(entries, d) =>
                      /\ ~HasKey(Revive(storage'.doc), d)
                      /\ entry' = Spread(defaultEntry(todayStr), [date |-> d])
       /\ (pc = "ready" /\ fills' = fills /\ ~HasKey(entries, date)
              /\ HasKey(entries', date))
             => (FormUpdate /\ date' = date)
       /\ (pc = "ready" /\ fills' = fills + 1 /\ HasKey(entries', date))
             => \E n \in (LocalDayNumber - 27)..LocalDayNumber' :
                    date = ISODate(n * MinutesPerDay)
       /\ (pc = "ready" /\ fills' = fills + 1 /\ now' = now)
             => (HasKey(entries', date) <=> date \in LastFourWeeks)
       /\ FormUpdate =>
             (HasKey(entries', date) /\ HasKey(Revive(storage'.doc), date))]_vars

\* A date without an entry has been selected: it has no key in memory or
\* in storage, and the entry viewed is the default with that date.
C12_Witness ==
    /\ pc = "ready"
    /\ steps = 1
    /\ date = DateString(2024, 12, 31)
    /\ date # todayStr
    /\ ~HasKey(entries, date)
    /\ ~HasKey(Revive(storage.doc), date)
    /\ HasKey(entries, todayStr)
    /\ entry = Spread(defaultEntry(todayStr), [date |-> date])

\* The keys of a store, in property order.
KeySeq(store) == [i \in 1..Len(OwnMembers(store)) |-> OwnMembers(store)[i].k]

\* C13: started on an empty store or on a loaded store whose entries each
\* have their key as date, every entry of the store in memory and of the
\* persisted store has its key as its date field after any actions, so the
\* entries sorted by date are the entries in the order of their keys.
C13_EntryDatesEqualKeys ==
    /\ DatesAreKeys(entries)
    /\ pc = "ready" => DatesAreKeys(Revive(storage.doc))
    /\ LET arr == SortByDate(Values(entries))
       IN  [i \in 1..Len(arr) |-> arr[i].date] = InOrder(KeySeq(entries))

\* An entry has been created by an edit on a selected date other than
\* today: it stands after today's, under its own date.
C13_Witness ==
    /\ pc = "ready"
    /\ steps = 2
    /\ KeySeq(entries) = <<todayStr, DateString(2024, 12, 31)>>
    /\ entries.v[2].v.date = DateString(2024, 12, 31)
    /\ entries.v[2].v # Spread(defaultEntry(todayStr), [date |-> DateString(2024, 12, 31)])

=============================================================================
